---- MODULE Spec2Model ----
(***************************************************************************)
(* Lab_10.ipynb: the code cells of the notebook as a state machine.        *)
(*                                                                         *)
(* A Jupyter kernel keeps one namespace of notebook-level names (ns) and   *)
(* executes one cell at a time, statement by statement.  The position of   *)
(* the cell being executed is the line of Lab_10.ipynb that holds the      *)
(* next statement (pc).  A statement that raises ends the execution of     *)
(* the cell: nothing in the notebook catches an exception.                 *)
(*                                                                         *)
(* The pretrained models, the hub they are fetched from, the image files   *)
(* and the tensor runtime are outside the notebook.  They are modelled as  *)
(* an environment that is fixed for a session (hub, files, fault) and as    *)
(* pretrained weights that are an unknown but fixed function of their      *)
(* inputs: the logits of a CLIP forward pass are chosen the first time an  *)
(* input is seen and are the same ever after (weights); the tokens         *)
(* generate returns are an uninterpreted term of its inputs, in a batch    *)
(* whose size the notebook does not set.                                   *)
(***************************************************************************)
EXTENDS Integers, Sequences, FiniteSets, TLC

VARIABLES hub, files, fault, weights,
          ns, cell, pc, frame, stdout, exc,
          trace, log, nCalls, loads, shared, writer

env  == <<hub, files, fault>>
vars == <<hub, files, fault, weights, ns, cell, pc, frame, stdout, exc,
          trace, log, nCalls, loads, shared, writer>>

-----------------------------------------------------------------------------
(* Bounds of the model.                                                    *)

\* largest image-text logit the CLIP forward pass may return (0..MaxLogit)
MaxLogit == 1
\* largest number of sequences one generate call may return
MaxBatch == 2
\* largest number of perform_blip_qa calls in one session
MaxCalls == 2
\* largest number of things wrong with the environment of one session (an
\* artefact the hub cannot deliver, a path without a complete image, a tensor
\* runtime that raises)
MaxFaults == 1

-----------------------------------------------------------------------------
(* Values.                                                                 *)

None == <<>>
Some(v) == <<v>>
Val(o) == o[1]

Paths == {"cat.jpg", "cat_dog.jpg"}
\* the arguments perform_blip_qa is called with
CallArgs == {<<"cat.jpg", "What color is the cat?">>, <<"cat_dog.jpg", "Is there a dog?">>}

\* what a path holds: no file, a file whose header is readable but whose
\* pixel data is cut short, or a complete image of a colour mode with three
\* bands, one band or four bands
Modes == {"RGB", "L", "RGBA"}
FileKinds == {"missing", "truncated"} \cup Modes

\* the four artefacts the notebook fetches by name
Artefacts == {"CLIPModel", "CLIPProcessor", "BlipProcessor", "BlipForQuestionAnswering"}

\* a token is <<text, image path, image mode, question>>: a special token has a
\* text only, a word of an answer stands for whatever the weights generate for
\* that image and that question
Special(text) == <<text, "", "", "">>
SpecialTokens == {Special("[CLS]"), Special("[SEP]")}

GlobalNames == {"Image", "torch", "model", "processor", "texts", "image", "inputs",
                "outputs", "logits_per_image", "texts2", "image2", "outputs2",
                "logits_per_image2", "perform_blip_qa", "image_path", "question",
                "answer"}
\* the notebook-level names that hold data, as opposed to the imported modules
\* and the function the QA cell defines
DataNames == GlobalNames \ {"Image", "torch", "perform_blip_qa"}
LocalNames == {"image_path", "question", "processor", "model", "image", "inputs",
               "generated_ids", "answer"}

NoFrame == [n \in LocalNames |-> None]

-----------------------------------------------------------------------------
(* The libraries the cells call, by what the calls do.                     *)

\* X.from_pretrained(name): the artefact when the hub (or its local cache)
\* can deliver it, an exception otherwise
from_pretrained(h, a) ==
    IF a \in h THEN [ok |-> TRUE, val |-> a, fetches |-> 1]
    ELSE [ok |-> FALSE, val |-> "OSError", fetches |-> 1]

Bands(m) == CASE m = "RGB" -> 3 [] m = "RGBA" -> 4 [] OTHER -> 1

\* Image.open(path): reads the header only; the pixel data is read lazily
PILOpen(f, path) ==
    CASE f[path] = "missing" ->
           [ok |-> FALSE, val |-> "FileNotFoundError"]
      [] f[path] = "truncated" ->
           [ok |-> TRUE, val |-> [path |-> path, mode |-> "RGB", bands |-> 3,
                                  complete |-> FALSE]]
      [] OTHER ->
           [ok |-> TRUE, val |-> [path |-> path, mode |-> f[path],
                                  bands |-> Bands(f[path]), complete |-> TRUE]]

\* image.convert(mode): loads the pixel data, then changes the colour mode
convert(img, mode) ==
    IF img.complete
    THEN [ok |-> TRUE, val |-> [img EXCEPT !.mode = mode, !.bands = Bands(mode)]]
    ELSE [ok |-> FALSE, val |-> "OSError"]

\* processor(text=..., images=...): one batch entry per text and per image;
\* reading the pixels of an image that is cut short raises
ProcessorCall(proc, texts, img) ==
    IF img.complete
    THEN [ok |-> TRUE, val |-> [by |-> proc, input_ids |-> texts, pixel_values |-> <<img>>]]
    ELSE [ok |-> FALSE, val |-> "OSError"]

\* what a forward pass of CLIP may return for these inputs: one row per image,
\* one logit per text.  A softmax does not change when a constant is added to
\* a row, so the rows are taken with their smallest logit at 0.
ClipRows(n) == {r \in [1..n -> 0..MaxLogit] : \E j \in 1..n : r[j] = 0}
ClipOutputs(inp) ==
    [1..Len(inp.pixel_values) -> ClipRows(Len(inp.input_ids))]

Word(rank, inp) ==
    <<rank, inp.pixel_values[1].path, inp.pixel_values[1].mode, inp.input_ids[1]>>

\* model.generate(**inputs) for a batch of one question: n sequences, each
\* wrapped in special tokens, the best one first
generate(inp, n) ==
    [i \in 1..n |-> <<Special("[CLS]"), Word(IF i = 1 THEN "best" ELSE "alt", inp),
                      Special("[SEP]")>>]

\* the pretrained weights are a function: an input seen before gives the value
\* it gave before
Known(ws, inp) == {w \in ws : w[1] = inp}
Allowed(ws, inp, all) ==
    IF Known(ws, inp) = {} THEN all ELSE {w[2] : w \in Known(ws, inp)}

\* exp, as a positive integer weight (2^x instead of e^x: the normalisation
\* is computed exactly, as a fraction <<numerator, denominator>>)
RECURSIVE Exp2(_)
Exp2(x) == IF x = 0 THEN 1 ELSE 2 * Exp2(x - 1)

RECURSIVE SumTo(_, _)
SumTo(f, n) == IF n = 0 THEN 0 ELSE f[n] + SumTo(f, n - 1)

\* tensor.softmax(dim): dim = 1 normalises each row (over the texts of one
\* image), dim = 0 each column (over the images of one text)
softmax(m, dim) ==
    [i \in 1..Len(m) |->
       [j \in 1..Len(m[i]) |->
          <<Exp2(m[i][j]),
            IF dim = 1
            THEN SumTo([k \in 1..Len(m[i]) |-> Exp2(m[i][k])], Len(m[i]))
            ELSE SumTo([k \in 1..Len(m) |-> Exp2(m[k][j])], Len(m))>>]]

ProbabilitiesDim0(logits) == softmax(logits, 0)

\* logits_per_image.softmax(dim=1)
Probabilities(logits) == softmax(logits, 1)

IsWord(t) == t \notin SpecialTokens

\* processor.decode(ids, skip_special_tokens=...): the text of the tokens, as
\* the sequence of its words
decode(ids, skip) == IF skip THEN SelectSeq(ids, IsWord) ELSE ids

FirstOfLast(generated_ids) == generated_ids[Len(generated_ids)]

\* generated_ids[0]
First(generated_ids) == generated_ids[1]

-----------------------------------------------------------------------------
(* Program order: the lines of Lab_10.ipynb that hold the statements of     *)
(* each cell, in the order the kernel executes them.                        *)

SetupOrder == <<37>>

Clip1OrderOpenFirst == <<284, 290, 291, 287, 288, 293, 295, 296, 297>>

Clip1Order == <<284, 287, 288, 290, 291, 293, 295, 296, 297>>

Clip2Order == <<314, 315, 317, 319, 320, 321>>

QaOrderPrintFirst == <<482, 486, 504, 505, 506, 510, 509, 511>>

QaOrder == <<482, 486, 504, 505, 506, 509, 510, 511>>

\* the body of perform_blip_qa
FnOrder == <<487, 488, 491, 493, 497, 500, 501>>

Order(c) ==
    CASE c = "setup" -> SetupOrder
      [] c = "clip1" -> Clip1Order
      [] c = "clip2" -> Clip2Order
      [] c = "qa"    -> QaOrder

Range(s) == {s[i] : i \in 1..Len(s)}
FnLines == Range(FnOrder)

\* the line after `line` in `order`, 0 after the last one
Succ(order, line) ==
    LET i == CHOOSE k \in 1..Len(order) : order[k] = line
    IN  IF i = Len(order) THEN 0 ELSE order[i + 1]

-----------------------------------------------------------------------------
(* Name binding.                                                           *)

StoreGlobal(fr, g, name, v) ==
    IF name \in GlobalNames
    THEN [frame |-> fr, ns |-> [g EXCEPT ![name] = Some(v)]]
    ELSE [frame |-> [fr EXCEPT ![name] = Some(v)], ns |-> g]

\* an assignment inside perform_blip_qa: the function declares no name
\* global, so every name it assigns is local to the call
StoreLocal(fr, g, name, v) ==
    [frame |-> [fr EXCEPT ![name] = Some(v)], ns |-> g]

LookupGlobalFirst(fr, g, name) ==
    IF name \in GlobalNames /\ g[name] # None THEN g[name] ELSE fr[name]

\* a name read inside perform_blip_qa: the local, else the notebook-level name
Lookup(fr, g, name) ==
    IF fr[name] # None THEN fr[name] ELSE g[name]

LoadBlipProcessorCached(h, g) ==
    IF g["processor"] # None
    THEN [ok |-> TRUE, val |-> Val(g["processor"]), fetches |-> 0]
    ELSE from_pretrained(h, "BlipProcessor")

\* BlipProcessor.from_pretrained("Salesforce/blip-vqa-base"): fetched on every call
LoadBlipProcessor(h, g) == from_pretrained(h, "BlipProcessor")

LoadBlipModelCached(h, g) ==
    IF g["model"] # None
    THEN [ok |-> TRUE, val |-> Val(g["model"]), fetches |-> 0]
    ELSE from_pretrained(h, "BlipForQuestionAnswering")

\* BlipForQuestionAnswering.from_pretrained("Salesforce/blip-vqa-base"): fetched
\* on every call
LoadBlipModel(h, g) == from_pretrained(h, "BlipForQuestionAnswering")

OpenOnly(f, path) == PILOpen(f, path)

\* Image.open(image_path).convert("RGB")
OpenConvert(f, path) ==
    LET o == PILOpen(f, path)
    IN  IF o.ok THEN convert(o.val, "RGB") ELSE o

-----------------------------------------------------------------------------
(* Bookkeeping shared by the statements.                                   *)

\* which cell bound a notebook-level name last, and which names a cell has
\* read or rebound after another cell bound them
Touch(rd, wr) ==
    /\ shared' = shared \cup {n \in (rd \cup wr) \cap DataNames : writer[n] \notin {"none", cell}}
    /\ writer' = [n \in DataNames |-> IF n \in wr THEN cell ELSE writer[n]]

\* what a call of perform_blip_qa did: its arguments, the steps it took, the
\* line that raised (0: none), the answer it returned, and whether the CLIP
\* cell had bound the notebook-level processor by then
CallRecord(steps, line, answer) ==
    [args |-> <<Val(frame["image_path"]), Val(frame["question"])>>,
     steps |-> steps, line |-> line, answer |-> answer,
     clip |-> ns["processor"] # None]

\* the statement at pc raises: nothing catches it, the cell's execution ends.
\* ev is the step the statement had started (none when the name it calls is
\* not bound).
Raise(ev, e, rd) ==
    /\ pc' = 0
    /\ frame' = NoFrame
    /\ exc' = Some([line |-> pc, type |-> e])
    /\ trace' = trace \o ev \o <<"raise">>
    /\ Touch(rd, {})
    /\ log' = IF pc \in FnLines
              THEN log \cup {CallRecord(trace \o ev \o <<"raise">>, pc, None)}
              ELSE log
    /\ UNCHANGED <<ns, cell, stdout, weights>>

\* the statement at pc of a cell completes, binding the notebook-level names
\* of `binds` and leaving `out` in the cell's output area; after the last
\* statement the cell is done (pc = 0)
Complete(order, ev, rd, binds, out) ==
    /\ pc' = Succ(order, pc)
    /\ stdout' = out
    /\ ns' = [n \in GlobalNames |-> IF n \in DOMAIN binds THEN Some(binds[n]) ELSE ns[n]]
    /\ Touch(rd, DOMAIN binds)
    /\ trace' = trace \o ev
    /\ UNCHANGED <<cell, exc, frame, log>>

\* the statement at pc of perform_blip_qa completes, assigning `name`
CompleteFn(ev, rd, name, v) ==
    LET st == StoreLocal(frame, ns, name, v)
    IN  /\ pc' = Succ(FnOrder, pc)
        /\ frame' = st.frame
        /\ ns' = st.ns
        /\ Touch(rd, {n \in DataNames : st.ns[n] # ns[n]})
        /\ trace' = trace \o ev
        /\ UNCHANGED <<cell, exc, log, stdout>>

-----------------------------------------------------------------------------
(* The session.                                                            *)

Faults(h, f, t) ==
    Cardinality(Artefacts \ h) + Cardinality({p \in Paths : f[p] \notin Modes})
      + (IF t THEN 1 ELSE 0)

Init ==
    /\ hub \in SUBSET Artefacts
    /\ files \in [Paths -> FileKinds]
    /\ fault \in BOOLEAN
    /\ Faults(hub, files, fault) <= MaxFaults
    /\ weights = {}
    /\ ns = [n \in GlobalNames |-> None]
    /\ cell = "none"
    /\ pc = 0
    /\ frame = NoFrame
    /\ stdout = <<>>
    /\ exc = None
    /\ trace = <<>>
    /\ log = {}
    /\ nCalls = 0
    /\ loads = [processor |-> 0, model |-> 0]
    /\ shared = {}
    /\ writer = [n \in DataNames |-> "none"]

Plain == UNCHANGED weights
Quiet == UNCHANGED <<hub, files, fault, nCalls, loads>>

\* the user runs a cell: its output area is cleared and its first statement is next
Execute(c) ==
    /\ pc = 0
    /\ c = "qa" => nCalls < MaxCalls
    /\ cell' = c
    /\ pc' = Head(Order(c))
    /\ stdout' = <<>>
    /\ trace' = <<>>
    /\ exc' = None
    /\ UNCHANGED <<hub, files, fault, weights, ns, frame, log, nCalls, loads,
                   shared, writer>>

-----------------------------------------------------------------------------
(* Setup cell.                                                             *)

SetupImport ==
    /\ cell = "setup" /\ pc = 37
    /\ Complete(SetupOrder, <<>>, {}, "Image" :> "module", stdout)
    /\ Plain /\ Quiet

-----------------------------------------------------------------------------
(* The CLIP cells.  The second cell has the statements of the first from    *)
(* the candidate texts on, under other names.                               *)

CandidateTexts == <<"A photo of a cat", "A photo of a dog">>

ClipTexts(c, order, line, name) ==
    /\ cell = c /\ pc = line
    /\ Complete(order, <<>>, {}, name :> CandidateTexts, stdout)
    /\ Plain /\ Quiet

\* image = Image.open(path)
ClipOpen(c, order, line, name, path) ==
    /\ cell = c /\ pc = line
    /\ IF ns["Image"] = None
       THEN Raise(<<>>, "NameError", {})
       ELSE LET r == PILOpen(files, path)
            IN  IF r.ok
                THEN Complete(order, <<"open">>, {"Image"}, name :> r.val, stdout) /\ Plain
                ELSE Raise(<<"open">>, r.val, {"Image"})
    /\ Quiet

ClipPreprocessDefault(c, order, line, texts, image) ==
    /\ cell = c /\ pc = line
    /\ LET proc == IF ns["processor"] = None THEN "CLIPProcessor" ELSE Val(ns["processor"])
           r == ProcessorCall(proc, Val(ns[texts]), Val(ns[image]))
       IN  IF r.ok
           THEN Complete(order, <<"preprocess">>, {"processor", texts, image},
                         "inputs" :> r.val, stdout) /\ Plain
           ELSE Raise(<<"preprocess">>, r.val, {"processor", texts, image})
    /\ Quiet

\* inputs = processor(text=texts, images=image, return_tensors="pt", padding=True)
ClipPreprocess(c, order, line, texts, image) ==
    /\ cell = c /\ pc = line
    /\ IF ns["processor"] = None
       THEN Raise(<<>>, "NameError", {})
       ELSE LET r == ProcessorCall(Val(ns["processor"]), Val(ns[texts]), Val(ns[image]))
            IN  IF r.ok
                THEN Complete(order, <<"preprocess">>, {"processor", texts, image},
                              "inputs" :> r.val, stdout) /\ Plain
                ELSE Raise(<<"preprocess">>, r.val, {"processor", texts, image})
    /\ Quiet

\* outputs = model(**inputs)
ClipForward(c, order, line, name) ==
    /\ cell = c /\ pc = line
    /\ IF ns["model"] = None
       THEN Raise(<<>>, "NameError", {})
       ELSE IF Val(ns["model"]) # "CLIPModel" \/ Val(ns["inputs"]).by # "CLIPProcessor"
       THEN Raise(<<"infer">>, "TypeError", {"model", "inputs"})
       ELSE IF fault
       THEN Raise(<<"infer">>, "RuntimeError", {"model", "inputs"})
       ELSE \E out \in Allowed(weights, Val(ns["inputs"]), ClipOutputs(Val(ns["inputs"]))) :
              /\ Complete(order, <<"infer">>, {"model", "inputs"},
                          name :> [logits_per_image |-> out], stdout)
              /\ weights' = weights \cup {<<Val(ns["inputs"]), out>>}
    /\ Quiet

\* logits_per_image = outputs.logits_per_image
ClipLogits(c, order, line, outputs, name) ==
    /\ cell = c /\ pc = line
    /\ Complete(order, <<>>, {outputs}, name :> Val(ns[outputs]).logits_per_image, stdout)
    /\ Plain /\ Quiet

\* print(logits_per_image.softmax(dim=1))
ClipPrint(c, order, line, name) ==
    /\ cell = c /\ pc = line
    /\ Complete(order, <<"post", "print">>, {name}, <<>>,
                Append(stdout, Probabilities(Val(ns[name]))))
    /\ Plain /\ Quiet

Clip1Import ==
    /\ cell = "clip1" /\ pc = 284
    /\ Complete(Clip1Order, <<>>, {}, "Image" :> "module", stdout)
    /\ Plain /\ Quiet

Clip1LoadModel ==
    /\ cell = "clip1" /\ pc = 287
    /\ LET r == from_pretrained(hub, "CLIPModel")
       IN  IF r.ok
           THEN Complete(Clip1Order, <<"load_model">>, {}, "model" :> r.val, stdout) /\ Plain
           ELSE Raise(<<"load_model">>, r.val, {})
    /\ Quiet

Clip1LoadProcessor ==
    /\ cell = "clip1" /\ pc = 288
    /\ LET r == from_pretrained(hub, "CLIPProcessor")
       IN  IF r.ok
           THEN Complete(Clip1Order, <<"load_processor">>, {}, "processor" :> r.val, stdout) /\ Plain
           ELSE Raise(<<"load_processor">>, r.val, {})
    /\ Quiet

Clip1Texts == ClipTexts("clip1", Clip1Order, 290, "texts")
Clip1Open == ClipOpen("clip1", Clip1Order, 291, "image", "cat.jpg")
Clip1Preprocess == ClipPreprocess("clip1", Clip1Order, 293, "texts", "image")
Clip1Forward == ClipForward("clip1", Clip1Order, 295, "outputs")
Clip1Logits == ClipLogits("clip1", Clip1Order, 296, "outputs", "logits_per_image")
Clip1Print == ClipPrint("clip1", Clip1Order, 297, "logits_per_image")

Clip2Texts == ClipTexts("clip2", Clip2Order, 314, "texts2")
Clip2Open == ClipOpen("clip2", Clip2Order, 315, "image2", "cat_dog.jpg")
Clip2Preprocess == ClipPreprocess("clip2", Clip2Order, 317, "texts2", "image2")
Clip2Forward == ClipForward("clip2", Clip2Order, 319, "outputs2")
Clip2Logits == ClipLogits("clip2", Clip2Order, 320, "outputs2", "logits_per_image2")
Clip2Print == ClipPrint("clip2", Clip2Order, 321, "logits_per_image2")

-----------------------------------------------------------------------------
(* The QA cell and perform_blip_qa.                                        *)

QaImport ==
    /\ cell = "qa" /\ pc = 482
    /\ Complete(QaOrder, <<>>, {}, ("torch" :> "module") @@ ("Image" :> "module"), stdout)
    /\ Plain /\ Quiet

\* def perform_blip_qa(image_path, question): binds the function, runs nothing
QaDef ==
    /\ cell = "qa" /\ pc = 486
    /\ Complete(QaOrder, <<>>, {}, "perform_blip_qa" :> "function", stdout)
    /\ Plain /\ Quiet

\* if __name__ == "__main__": true in the kernel's namespace
QaIfMain ==
    /\ cell = "qa" /\ pc = 504
    /\ Complete(QaOrder, <<>>, {}, <<>>, stdout)
    /\ Plain /\ Quiet

QaImagePath ==
    /\ cell = "qa" /\ pc = 505
    /\ Complete(QaOrder, <<>>, {}, "image_path" :> "cat.jpg", stdout)
    /\ Plain /\ Quiet

QaQuestion ==
    /\ cell = "qa" /\ pc = 506
    /\ Complete(QaOrder, <<>>, {}, "question" :> "What color is the cat?", stdout)
    /\ Plain /\ Quiet

\* a call enters the function with its two arguments as the only locals
Enter(p, q) ==
    /\ frame' = [NoFrame EXCEPT !["image_path"] = Some(p), !["question"] = Some(q)]
    /\ pc' = Head(FnOrder)
    /\ nCalls' = nCalls + 1

\* answer = perform_blip_qa(image_path, question), up to the entry of the function
QaCall ==
    /\ cell = "qa" /\ pc = 509
    /\ Enter(Val(ns["image_path"]), Val(ns["question"]))
    /\ Touch({"perform_blip_qa", "image_path", "question"}, {})
    /\ UNCHANGED <<hub, files, fault, weights, ns, cell, stdout, exc, trace,
                   log, loads>>

\* perform_blip_qa(p, q) evaluated by any later cell of the session
ExecuteCall(p, q) ==
    /\ pc = 0
    /\ ns["perform_blip_qa"] # None
    /\ nCalls < MaxCalls
    /\ cell' = "call"
    /\ Enter(p, q)
    /\ stdout' = <<>>
    /\ trace' = <<>>
    /\ exc' = None
    /\ UNCHANGED <<hub, files, fault, weights, ns, log, loads, shared, writer>>

InFn(line) == cell \in {"qa", "call"} /\ pc = line

BlipLoadProcessor ==
    /\ InFn(487)
    /\ LET r == LoadBlipProcessor(hub, ns)
       IN  /\ loads' = [loads EXCEPT !.processor = @ + r.fetches]
           /\ IF r.ok
              THEN CompleteFn(<<"load_processor">>, {}, "processor", r.val) /\ Plain
              ELSE Raise(<<"load_processor">>, r.val, {})
    /\ UNCHANGED <<hub, files, fault, nCalls>>

BlipLoadModel ==
    /\ InFn(488)
    /\ LET r == LoadBlipModel(hub, ns)
       IN  /\ loads' = [loads EXCEPT !.model = @ + r.fetches]
           /\ IF r.ok
              THEN CompleteFn(<<"load_model">>, {}, "model", r.val) /\ Plain
              ELSE Raise(<<"load_model">>, r.val, {})
    /\ UNCHANGED <<hub, files, fault, nCalls>>

\* image = Image.open(image_path).convert("RGB")
BlipOpenConvert ==
    /\ InFn(491)
    /\ LET path == Val(Lookup(frame, ns, "image_path"))
           r == OpenConvert(files, path)
           ev == IF PILOpen(files, path).ok THEN <<"open", "convert">> ELSE <<"open">>
       IN  IF r.ok
           THEN CompleteFn(ev, {"Image"}, "image", r.val) /\ Plain
           ELSE Raise(ev, r.val, {"Image"})
    /\ Quiet

\* inputs = processor(image, question, return_tensors="pt")
BlipPreprocess ==
    /\ InFn(493)
    /\ LET proc == Val(Lookup(frame, ns, "processor"))
           r == ProcessorCall(proc, <<Val(Lookup(frame, ns, "question"))>>,
                              Val(Lookup(frame, ns, "image")))
       IN  IF proc # "BlipProcessor"
           THEN Raise(<<"preprocess">>, "TypeError", {})
           ELSE IF r.ok
           THEN CompleteFn(<<"preprocess">>, {}, "inputs", r.val) /\ Plain
           ELSE Raise(<<"preprocess">>, r.val, {})
    /\ Quiet

\* with torch.no_grad(): generated_ids = model.generate(**inputs)
BlipGenerate ==
    /\ InFn(497)
    /\ LET m == Val(Lookup(frame, ns, "model"))
           inp == Val(Lookup(frame, ns, "inputs"))
       IN  IF m # "BlipForQuestionAnswering"
           THEN Raise(<<"infer">>, "TypeError", {"torch"})
           ELSE IF fault
           THEN Raise(<<"infer">>, "RuntimeError", {"torch"})
           ELSE \E n \in 1..MaxBatch :
                    CompleteFn(<<"infer">>, {"torch"}, "generated_ids",
                               generate(inp, n)) /\ Plain
    /\ Quiet

\* answer = processor.decode(generated_ids[0], skip_special_tokens=True)
BlipDecode ==
    /\ InFn(500)
    /\ CompleteFn(<<"post">>, {}, "answer",
                  decode(First(Val(Lookup(frame, ns, "generated_ids"))), TRUE))
    /\ Plain /\ Quiet

\* return answer: the frame is dropped; in the QA cell the value is bound to
\* the notebook-level name answer, in any other cell the cell ends
BlipReturn ==
    /\ InFn(501)
    /\ log' = log \cup {CallRecord(trace, 0, Some(Val(Lookup(frame, ns, "answer"))))}
    /\ frame' = NoFrame
    /\ IF cell = "qa"
       THEN /\ pc' = Succ(QaOrder, 509)
            /\ ns' = [ns EXCEPT !["answer"] = Some(Val(Lookup(frame, ns, "answer")))]
            /\ Touch({}, {"answer"})
       ELSE /\ pc' = 0
            /\ UNCHANGED <<ns, shared, writer>>
    /\ UNCHANGED <<cell, exc, trace, stdout>>
    /\ Plain /\ Quiet

\* print(f"Question: {question}")
QaPrintQuestion ==
    /\ cell = "qa" /\ pc = 510
    /\ Complete(QaOrder, <<"print">>, {"question"}, <<>>,
                Append(stdout, <<"Question", Val(ns["question"])>>))
    /\ Plain /\ Quiet

\* print(f"Answer: {answer}")
QaPrintAnswer ==
    /\ cell = "qa" /\ pc = 511
    /\ Complete(QaOrder, <<"print">>, {"answer"}, <<>>,
                Append(stdout, <<"Answer", Val(ns["answer"])>>))
    /\ Plain /\ Quiet

-----------------------------------------------------------------------------

Next ==
    \/ \E c \in {"setup", "clip1", "clip2", "qa"} : Execute(c)
    \/ \E a \in CallArgs : ExecuteCall(a[1], a[2])
    \/ SetupImport
    \/ Clip1Import \/ Clip1LoadModel \/ Clip1LoadProcessor \/ Clip1Texts \/ Clip1Open
    \/ Clip1Preprocess \/ Clip1Forward \/ Clip1Logits \/ Clip1Print
    \/ Clip2Texts \/ Clip2Open \/ Clip2Preprocess \/ Clip2Forward \/ Clip2Logits
    \/ Clip2Print
    \/ QaImport \/ QaDef \/ QaIfMain \/ QaImagePath \/ QaQuestion \/ QaCall
    \/ BlipLoadProcessor \/ BlipLoadModel \/ BlipOpenConvert \/ BlipPreprocess
    \/ BlipGenerate \/ BlipDecode \/ BlipReturn
    \/ QaPrintQuestion \/ QaPrintAnswer

Spec == Init /\ [][Next]_vars

-----------------------------------------------------------------------------
(* Properties.                                                             *)

\* the cell that ran last has ended without an exception
Succeeded(c) == cell = c /\ pc = 0 /\ exc = None
\* ... with an exception raised by the statement at `line`
FailedAt(c, line) == cell = c /\ pc = 0 /\ exc # None /\ Val(exc).line = line

Rank(e) ==
    CASE e \in {"load_model", "load_processor"} -> 1
      [] e \in {"open", "convert"} -> 2
      [] e = "preprocess" -> 3
      [] e = "infer" -> 4
      [] e = "post" -> 5
      [] e = "print" -> 6
      [] e = "raise" -> 7

Earlier(i, e) == \E j \in 1..(i - 1) : trace[j] = e

C2_FailureEndsCell ==
    exc # None =>
      /\ pc = 0
      /\ frame = NoFrame
      /\ stdout = <<>>
      /\ \A i \in 1..Len(trace) : trace[i] = "raise" <=> i = Len(trace)
      /\ Val(exc).line \in FnLines
           => \E r \in log : r.line = Val(exc).line /\ r.answer = None /\ r.steps = trace
      /\ cell = "qa" => ns["answer"] = None

\* the QA cell has ended with an exception raised by generate
C2_Witness == FailedAt("qa", 497)

Fraction(t) == t[2] > 0 /\ 0 <= t[1] /\ t[1] <= t[2]

\* the sum of a row of fractions, as a fraction
RECURSIVE RowSum(_, _)
RowSum(row, n) ==
    IF n = 0 THEN <<0, 1>>
    ELSE LET s == RowSum(row, n - 1)
         IN  <<s[1] * row[n][2] + row[n][1] * s[2], s[2] * row[n][2]>>

Distribution(row, logits) ==
    /\ Len(row) = Len(CandidateTexts)
    /\ \A j \in 1..Len(row) : Fraction(row[j])
    /\ RowSum(row, Len(row))[1] = RowSum(row, Len(row))[2]
    /\ \A j, k \in 1..Len(row) :
         row[j][1] * row[k][2] * Exp2(logits[k]) = row[k][1] * row[j][2] * Exp2(logits[j])

Printed(c, name) ==
    (cell = c /\ stdout # <<>>)
      => /\ Len(stdout) = 1
         /\ Len(stdout[1]) = 1
         /\ Distribution(stdout[1][1], Val(ns[name])[1])

\* C3: what a CLIP cell prints is, for its one image, a row with one value per
\* candidate text, in the order of the texts (the value of a text is in
\* proportion to the exponential of its logit), every value between 0 and 1,
\* the values of the row adding up to 1.
C3_NormalizedRow == Printed("clip1", "logits_per_image") /\ Printed("clip2", "logits_per_image2")

\* the second CLIP cell has printed a row whose two values differ
C3_Witness ==
    /\ cell = "clip2" /\ stdout # <<>>
    /\ stdout[1][1][1] # stdout[1][1][2]

\* C4: a call that returns, returns one answer: the words of the first
\* generated sequence, in their order and without its special tokens, where
\* the sequence was generated for the image at image_path (converted to RGB)
\* and for the question of the call; the other sequences are not used.
C4_AnswerOfFirstSequence ==
    /\ \A r \in log :
         r.answer # None => Val(r.answer) = << <<"best", r.args[1], "RGB", r.args[2]>> >>
    /\ InFn(501)
         => LET ids == Val(frame["generated_ids"])
                inp == Val(frame["inputs"])
            IN  /\ ids[1] = <<Special("[CLS]")>> \o Val(frame["answer"]) \o <<Special("[SEP]")>>
                /\ inp.input_ids = <<Val(frame["question"])>>
                /\ Len(inp.pixel_values) = 1
                /\ inp.pixel_values[1].path = Val(frame["image_path"])

\* a call about cat_dog.jpg is about to return its answer, and generate had
\* returned more than one sequence
C4_Witness ==
    /\ InFn(501)
    /\ Val(frame["image_path"]) = "cat_dog.jpg"
    /\ Len(Val(frame["generated_ids"])) > 1

Count(seq, e) == Cardinality({i \in 1..Len(seq) : seq[i] = e})

OneShotSteps == {"load_model", "open", "preprocess", "infer"}

\* C5 as stated: every call loads the processor and the model exactly once and
\* opens the image once, so that after n calls there have been n model loads.
C5_Original ==
    /\ \A r \in log :
         /\ Count(r.steps, "load_processor") = 1
         /\ Count(r.steps, "load_model") = 1
         /\ Count(r.steps, "open") = 1
         /\ Count(r.steps, "infer") <= 1
    /\ pc = 0 => loads.processor = nCalls /\ loads.model = nCalls

\* C5, amended: every call fetches the processor exactly once and takes each
\* later step (model load, open, preprocess, generate) at most once, exactly
\* once when the call returns; a step that raised is the last step of its call;
\* after n calls there have been n processor loads, and as many model loads as
\* calls whose processor load succeeded.
C5_OneShot ==
    /\ \A r \in log :
         /\ Count(r.steps, "load_processor") = 1
         /\ \A e \in OneShotSteps : Count(r.steps, e) <= 1
         /\ r.answer # None => \A e \in OneShotSteps : Count(r.steps, e) = 1
         /\ \A i \in 1..Len(r.steps) : r.steps[i] = "raise" => i = Len(r.steps)
    /\ ~InFn(487) => loads.processor = nCalls
    /\ ~(InFn(487) \/ InFn(488))
         => loads.model = IF "BlipProcessor" \in hub THEN nCalls ELSE 0

\* two calls have returned and the model was fetched twice
C5_Witness ==
    /\ pc = 0 /\ nCalls = 2 /\ loads.model = 2 /\ loads.processor = 2
    /\ \E r \in log : r.answer # None

\* C6: two calls with the same arguments, in the same environment, take the
\* same steps and end the same way (same answer, or an exception at the same
\* line), whatever was executed before each of them.
C6_Stateless ==
    \A r1, r2 \in log :
        r1.args = r2.args
          => r1.steps = r2.steps /\ r1.line = r2.line /\ r1.answer = r2.answer

\* the same call has returned once before and once after the first CLIP cell
\* bound the notebook-level processor
C6_Witness ==
    \E r1, r2 \in log : r1.args = r2.args /\ r1.clip /\ ~r2.clip /\ r1.answer # None

\* the line at which the environment makes the first CLIP cell and the QA cell
\* raise (0: none)
Clip1Line ==
    CASE "CLIPModel" \notin hub -> 287
      [] "CLIPProcessor" \notin hub -> 288
      [] files["cat.jpg"] = "missing" -> 291
      [] files["cat.jpg"] = "truncated" -> 293
      [] fault -> 295
      [] OTHER -> 0
QaLine ==
    CASE "BlipProcessor" \notin hub -> 487
      [] "BlipForQuestionAnswering" \notin hub -> 488
      [] files["cat.jpg"] \notin Modes -> 491
      [] fault -> 497
      [] OTHER -> 0

EndLine == IF exc = None THEN 0 ELSE Val(exc).line

\* the locals of perform_blip_qa are gone when no call is running, and the
\* first CLIP cell and the QA cell end where the environment alone decides
OwnOutcome ==
    /\ pc \notin FnLines => frame = NoFrame
    /\ (cell = "clip1" /\ pc = 0) => EndLine = Clip1Line
    /\ (cell = "qa" /\ pc = 0) => EndLine = QaLine

\* C7 as stated: no data name bound by one cell is read or rebound by another.
C7_Original == shared = {} /\ OwnOutcome

\* C7, amended: the only data names bound by one cell and read or rebound by
\* another are model, processor and inputs; the values of perform_blip_qa are
\* local to the call; the first CLIP cell and the QA cell end the same way
\* whichever cells were executed before them.
C7_SharedNames == shared \subseteq {"model", "processor", "inputs"} /\ OwnOutcome

\* the second CLIP cell has run to its end with the model and the processor of
\* the first and has rebound inputs, and the QA cell has run after it
C7_Witness ==
    /\ shared = {"model", "processor", "inputs"}
    /\ Succeeded("qa")

\* C8: the image handed to the BLIP processor is in RGB mode (three bands),
\* whatever the mode of the file: the conversion is the step right after the
\* open and right before the processor call.
C8_RgbBeforePreprocess ==
    /\ InFn(493)
         => /\ frame["image"] # None
            /\ Val(frame["image"]).mode = "RGB"
            /\ Val(frame["image"]).bands = 3
    /\ (cell \in {"qa", "call"} /\ frame["inputs"] # None)
         => Val(frame["inputs"]).pixel_values[1].mode = "RGB"
    /\ \A r \in log : \A i \in 1..Len(r.steps) :
         r.steps[i] = "preprocess"
           => i > 2 /\ r.steps[i - 1] = "convert" /\ r.steps[i - 2] = "open"

\* the processor is about to be called on an image whose file has four bands
C8_Witness == InFn(493) /\ files[Val(frame["image_path"])] = "RGBA"

\* the first CLIP cell has bound model and processor; it has run to its end
Clip1Loaded == writer["model"] = "clip1" /\ writer["processor"] = "clip1"
Clip1Succeeded == ns["logits_per_image"] # None /\ ~(cell = "clip1" /\ pc = 297)
OpenCompleted == Count(trace, "open") = 1 /\ EndLine # 315

\* C9 as stated: as long as the first CLIP cell has not run successfully, the
\* second, once it has opened its image, fails at the processor call and
\* prints nothing.
C9_Original ==
    /\ (cell = "clip2" /\ pc \in {319, 320, 321}) => Clip1Loaded
    /\ (cell = "clip2" /\ pc = 0 /\ OpenCompleted /\ ~Clip1Succeeded)
         => FailedAt("clip2", 317) /\ stdout = <<>>

\* C9, amended: the second CLIP cell gets past its processor call only if the
\* first has completed both of its loads; as long as it has not, the second
\* prints nothing and fails at the open or, once the image is opened, at the
\* processor call with a NameError.
C9_NeedsClip1Loads ==
    /\ (cell = "clip2" /\ (pc \in {319, 320, 321} \/ Succeeded("clip2"))) => Clip1Loaded
    /\ (cell = "clip2" /\ pc = 0 /\ ~Clip1Loaded)
         => /\ exc # None
            /\ stdout = <<>>
            /\ EndLine \in {315, 317}
            /\ OpenCompleted => EndLine = 317 /\ Val(exc).type = "NameError"

\* the second CLIP cell has failed at its processor call although the first
\* had loaded the model (the processor could not be fetched)
C9_Witness == FailedAt("clip2", 317) /\ ~Clip1Loaded /\ ns["model"] # None

\* C10: no step of the QA cell or of a call of perform_blip_qa changes the
\* notebook-level names model, processor and inputs, and a CLIP cell finds the
\* CLIP processor and the CLIP model under those names.
C10_QaLeavesClipNames ==
    [][ /\ cell' \in {"qa", "call"}
          => /\ ns'["model"] = ns["model"]
             /\ ns'["processor"] = ns["processor"]
             /\ ns'["inputs"] = ns["inputs"]
        /\ (cell' \in {"clip1", "clip2"} /\ ns'["processor"] # None)
          => Val(ns'["processor"]) = "CLIPProcessor"
        /\ (cell' \in {"clip1", "clip2"} /\ ns'["model"] # None)
          => Val(ns'["model"]) = "CLIPModel"
        /\ (cell' \in {"clip1", "clip2"} /\ ns'["inputs"] # None)
          => Val(ns'["inputs"]).by = "CLIPProcessor"
      ]_vars

\* the second CLIP cell is at its forward pass after a call of perform_blip_qa
\* that was made with the CLIP names bound has returned
C10_Witness ==
    /\ cell = "clip2" /\ pc = 319
    /\ \E r \in log : r.clip /\ r.answer # None

====
